---- MODULE Spec2Model ----
(***************************************************************************)
(* Model of the asynchronous TTS job subsystem of api_v2.py: the job      *)
(* record store (one JSON file per job), the in-memory job queue, the     *)
(* single background worker thread, and the /tts and /tts/status          *)
(* handlers.                                                              *)
(*                                                                        *)
(* Threads:                                                               *)
(*   - the asyncio event loop, which runs tts_submit / clone_voice /      *)
(*     delete_voice.  These are "async def" handlers; tts_submit has no   *)
(*     await, so at most one tts_submit is in progress at a time.         *)
(*   - the worker thread (line 126).                                      *)
(*   - a thread-pool thread running tts_status (a plain "def" handler).   *)
(* Each thread has a program counter; one action is one step between two  *)
(* points where another thread can observe or change shared state (the    *)
(* files under jobs/, voices/, outputs/ and job_queue).                   *)
(*                                                                        *)
(* Strings the code transforms (voice_name, language) are sequences of    *)
(* one-character strings, so lower() and replace() are computed.          *)
(***************************************************************************)
EXTENDS Integers, Sequences, FiniteSets, TLC

\* ---------------------------------------------------------------- bounds
MaxJobs == 2            \* submissions accepted in one run of the model

\* ---------------------------------------------------------------- inputs
\* The values uuid.uuid4() returns.  They are opaque and only compared for
\* equality, so the k-th value issued is named k.
JobIds == 1 .. MaxJobs
Users == {"u1"}
\* voice names uploaded with /clone-voice, and voice names asked for in /tts
\* (the last one is never uploaded)
ClonedNames == { <<"A", "l", " ", "B">> }
VoiceNames == { <<"A", "l", " ", "B">>, <<"a", "l", "_", "b">>, <<"B", "o", "b">> }
Texts == {"hello"}
Languages == { <<"Z", "H">> }
ErrMsgs == {"", "boom"} \* str(e) of the exception a synthesis call raises

\* ------------------------------------------------------------ pure parts
None == [py_none |-> TRUE]

\* d[k] = v on a Python dict
DictSet(d, k, v) == [x \in (DOMAIN d) \cup {k} |-> IF x = k THEN v ELSE d[x]]

\* dict.get(k) / dict.get(k, default)
DictGet(d, k, default) == IF k \in DOMAIN d THEN d[k] ELSE default

LowerChar(c) ==
    CASE c = "A" -> "a" [] c = "B" -> "b" [] c = "E" -> "e" [] c = "N" -> "n"
      [] c = "Z" -> "z" [] c = "H" -> "h" [] c = "J" -> "j" [] c = "K" -> "k"
      [] c = "O" -> "o" [] c = "L" -> "l"
      [] OTHER -> c

\* str.lower()
Lower(s) == [i \in DOMAIN s |-> LowerChar(s[i])]

\* str.replace(" ", "_")
ReplaceSpace(s) == [i \in DOMAIN s |-> IF s[i] = " " THEN "_" ELSE s[i]]

\* voice_name.lower().replace(" ", "_")
CleanVoiceName(voice_name) == ReplaceSpace(Lower(voice_name))

\* f"voices/{user_id}/{voice_name_clean}/ref.wav"
RefWav(user_id, voice_name_clean) == <<"voices", user_id, voice_name_clean, "ref.wav">>

\* f"{out_dir}/{job_id}.wav"
OutWav(user_id, voice_name_clean, job_id) == <<"outputs", user_id, voice_name_clean, job_id, ".wav">>

\* str(uuid.uuid4()): a value not issued before
Uuid4(used) == CHOOSE id \in JobIds \ used : \A other \in JobIds \ used : id <= other

\* faulty variant: the existence check is skipped
VoiceExists_Always(vs, ref_wav) == TRUE

\* os.path.exists(ref_wav)
VoiceExists(vs, ref_wav) == ref_wav \in vs

\* the file jobs/{job_id}.json
NoFile == [state |-> "absent"]
Torn == [state |-> "torn"]                \* opened with "w", document not (fully) written
Doc(data) == [state |-> "doc", data |-> data]
IsDoc(f) == f.state = "doc"

\* faulty variant: a missing file is read as an empty default record
LoadJob_Default(f) ==
    CASE f.state = "absent" -> [raised |-> FALSE, value |-> [status |-> "unknown"]]
      [] f.state = "torn" -> [raised |-> TRUE, value |-> None]
      [] OTHER -> [raised |-> FALSE, value |-> f.data]

\* load_job: what the call returns, or that it raises
LoadJob(f) ==
    CASE f.state = "absent" -> [raised |-> FALSE, value |-> None]
      [] f.state = "torn" -> [raised |-> TRUE, value |-> None]
      [] OTHER -> [raised |-> FALSE, value |-> f.data]

\* faulty variant: the record is created with another initial status
NewJobData_Pending(job_id, user_id, voice_name_clean, text, language, now) ==
    [ job_id |-> job_id,
      user_id |-> user_id,
      voice_name |-> voice_name_clean,
      text |-> text,
      language |-> language,
      ref_wav |-> RefWav(user_id, voice_name_clean),
      out_wav |-> OutWav(user_id, voice_name_clean, job_id),
      status |-> "pending",
      created_at |-> now ]

\* the dict tts_submit builds
NewJobData(job_id, user_id, voice_name_clean, text, language, now) ==
    [ job_id |-> job_id,
      user_id |-> user_id,
      voice_name |-> voice_name_clean,
      text |-> text,
      language |-> language,
      ref_wav |-> RefWav(user_id, voice_name_clean),
      out_wav |-> OutWav(user_id, voice_name_clean, job_id),
      status |-> "queued",
      created_at |-> now ]

SubmitResponse(job_id) == [code |-> 200, status |-> "queued", job_id |-> job_id]
VoiceNotFound == [code |-> 404, detail |-> "Voice not found"]

\* faulty variant: an item is dropped instead of enqueued
QueuePut_Drop(q, item) == q

\* faulty variant: a LifoQueue
QueuePut_Front(q, item) == << item >> \o q

\* faulty variant: get() hands out the first item and leaves it in the queue
QueueRest_Keep(q) == q

\* job_queue.put / job_queue.get / job_queue.qsize
QueuePut(q, item) == Append(q, item)
QueueFront(q) == Head(q)
QueueRest(q) == Tail(q)
QSize(q) == Len(q)

\* lang_map, lines 81-87 (the values for zh, ja, ko are written in their own
\* scripts in the source; they are transliterated here)
LangMapKeys ==
    { <<"e", "n">>, <<"e", "n", "g", "l", "i", "s", "h">>,
      <<"z", "h">>, <<"c", "h", "i", "n", "e", "s", "e">>,
      <<"j", "a">>, <<"j", "a", "p", "a", "n", "e", "s", "e">>,
      <<"k", "o">>, <<"k", "o", "r", "e", "a", "n">>,
      <<"b", "n">> }

LangMap ==
    [ k \in LangMapKeys |->
        CASE k \in { <<"e", "n">>, <<"e", "n", "g", "l", "i", "s", "h">> } -> "English"
          [] k \in { <<"z", "h">>, <<"c", "h", "i", "n", "e", "s", "e">> } -> "Zhongwen"
          [] k \in { <<"j", "a">>, <<"j", "a", "p", "a", "n", "e", "s", "e">> } -> "Nihongo"
          [] k \in { <<"k", "o">>, <<"k", "o", "r", "e", "a", "n">> } -> "Hangugeo"
          [] OTHER -> "English" ]

\* faulty variant: the requested code is looked up as it was sent
TtsLang_NoLower(language) == DictGet(LangMap, language, "English")

\* line 88: lang_map.get(job_data["language"].lower(), "English")
TtsLang(language) == DictGet(LangMap, Lower(language), "English")

\* faulty variant: the start of processing overwrites the creation stamp
MarkProcessing_Restamp(job, now) ==
    DictSet(DictSet(job, "status", "processing"), "created_at", now)

\* faulty variant: the start of processing is not stamped
MarkProcessing_NoStamp(job, now) == DictSet(job, "status", "processing")

\* lines 76-77
MarkProcessing(job, now) ==
    DictSet(DictSet(job, "status", "processing"), "started_at", now)

\* lines 104-106
MarkCompleted(job, now, out_wav) ==
    DictSet(DictSet(DictSet(job, "status", "completed"), "completed_at", now),
            "audio_url", out_wav)

\* faulty variant: a failed job is put back to queued for a retry
MarkFailed_Requeue(job, msg, now) ==
    DictSet(DictSet(DictSet(job, "status", "queued"), "error", msg), "failed_at", now)

\* faulty variant: the traceback text is stored instead of str(e)
MarkFailed_Traceback(job, msg, now) ==
    DictSet(DictSet(DictSet(job, "status", "failed"), "error", "Traceback (most recent call last)"),
            "failed_at", now)

\* faulty variant: the status is left as it was
MarkFailed_KeepStatus(job, msg, now) ==
    DictSet(DictSet(job, "error", msg), "failed_at", now)

\* lines 117-119
MarkFailed(job, msg, now) ==
    DictSet(DictSet(DictSet(job, "status", "failed"), "error", msg), "failed_at", now)

\* the exception a statement job["status"] = ... raises when job is None
NoneTypeError == [msg |-> "'NoneType' object does not support item assignment"]
\* the exception json.load raises on an empty or cut document
JSONDecodeError == [msg |-> "Expecting value: line 1 column 1 (char 0)"]

\* save_job, line 53: open(path, "w") creates or truncates the file
SaveOpen(fs, job_id) == [fs EXCEPT ![job_id] = Torn]
\* faulty variant: the document never reaches the file
SaveDump_Lost(fs, job_id, data) == fs

\* save_job, line 54 and the end of the with block
SaveDump(fs, job_id, data) == [fs EXCEPT ![job_id] = Doc(data)]

VARIABLES
    clock,      \* datetime.now()
    voices,     \* the ref.wav files that exist under voices/
    files,      \* jobs/{job_id}.json
    artifacts,  \* the .wav files that exist under outputs/
    queue,      \* job_queue
    issued,     \* values uuid4() has returned
    returned,   \* job ids returned to a client by tts_submit
    spc, sjob, sresp,           \* tts_submit: position, job_data, last response
    wpc, cur, wjob, werr, wlang, \* worker: position, job_data, job, e, tts_lang
    ppc, pid, resp              \* tts_status: position, job_id, resp

vars == << clock, voices, files, artifacts, queue, issued, returned,
           spc, sjob, sresp, wpc, cur, wjob, werr, wlang, ppc, pid, resp >>

storeVars == << files, artifacts, queue >>
submitVars == << spc, sjob, sresp, issued, returned >>
workerVars == << wpc, cur, wjob, werr, wlang >>
pollVars == << ppc, pid, resp >>

Init ==
    /\ clock = 1
    /\ voices = {}
    /\ files = [id \in JobIds |-> NoFile]
    /\ artifacts = {}
    /\ queue = << >>
    /\ issued = {}
    /\ returned = {}
    /\ spc = "idle" /\ sjob = None /\ sresp = None
    /\ wpc = "get" /\ cur = None /\ wjob = None /\ werr = None /\ wlang = "(unbound)"
    /\ ppc = "idle" /\ pid = 0 /\ resp = None

\* ------------------------------------------------------------ clone_voice
\* lines 144-157, as far as tts_submit sees them: ref.wav exists afterwards
CloneVoice(user_id, voice_name) ==
    /\ voices' = voices \cup {RefWav(user_id, CleanVoiceName(voice_name))}
    /\ UNCHANGED << clock, storeVars, submitVars, workerVars, pollVars >>

\* ------------------------------------------------------------ tts_submit
\* lines 167-171: the voice does not exist
SubmitReject(user_id, voice_name, text, language) ==
    /\ spc = "idle"
    /\ ~ VoiceExists(voices, RefWav(user_id, CleanVoiceName(voice_name)))
    /\ sresp' = VoiceNotFound
    /\ spc' = "reply"
    /\ UNCHANGED << clock, voices, storeVars, sjob, issued, returned, workerVars, pollVars >>

\* lines 167-188
SubmitBegin(user_id, voice_name, text, language) ==
    /\ spc = "idle"
    /\ VoiceExists(voices, RefWav(user_id, CleanVoiceName(voice_name)))
    /\ issued # JobIds
    /\ issued' = issued \cup {Uuid4(issued)}
    /\ sjob' = NewJobData(Uuid4(issued), user_id, CleanVoiceName(voice_name), text, language, clock)
    /\ clock' = clock + 1
    /\ spc' = "save_open"
    /\ UNCHANGED << voices, storeVars, sresp, returned, workerVars, pollVars >>

\* line 189, open(..., "w")
SubmitSaveOpen ==
    /\ spc = "save_open"
    /\ files' = SaveOpen(files, sjob.job_id)
    /\ spc' = "save_dump"
    /\ UNCHANGED << clock, voices, artifacts, queue, sjob, sresp, issued, returned,
                    workerVars, pollVars >>

\* line 189, json.dump and close
SubmitSaveDump ==
    /\ spc = "save_dump"
    /\ files' = SaveDump(files, sjob.job_id, sjob)
    /\ spc' = "put"
    /\ UNCHANGED << clock, voices, artifacts, queue, sjob, sresp, issued, returned,
                    workerVars, pollVars >>

\* faulty variant: job_queue = queue.Queue(maxsize=1), put blocks while full
SubmitPut_Bounded ==
    /\ spc = "put"
    /\ QSize(queue) < 1
    /\ queue' = QueuePut(queue, sjob)
    /\ sresp' = SubmitResponse(sjob.job_id)
    /\ spc' = "reply"
    /\ UNCHANGED << clock, voices, files, artifacts, sjob, issued, returned,
                    workerVars, pollVars >>

\* lines 190-196: enqueue and build the response
SubmitPut ==
    /\ spc = "put"
    /\ queue' = QueuePut(queue, sjob)
    /\ sresp' = SubmitResponse(sjob.job_id)
    /\ spc' = "reply"
    /\ UNCHANGED << clock, voices, files, artifacts, sjob, issued, returned,
                    workerVars, pollVars >>

\* the response (line 171 or line 192) reaches the client
SubmitReply ==
    /\ spc = "reply"
    /\ returned' = IF sresp.code = 200 THEN returned \cup {sresp.job_id} ELSE returned
    /\ sresp' = None
    /\ sjob' = None
    /\ spc' = "idle"
    /\ UNCHANGED << clock, voices, storeVars, issued, workerVars, pollVars >>

\* ------------------------------------------------------------ worker
\* lines 70-71; job_queue.get() blocks while the queue is empty
WorkerGet ==
    /\ wpc = "get"
    /\ QSize(queue) > 0
    /\ cur' = QueueFront(queue)
    /\ queue' = QueueRest(queue)
    /\ wpc' = "proc_load"
    /\ UNCHANGED << clock, voices, files, artifacts, submitVars, wjob, werr, wlang, pollVars >>

\* lines 75-77
WorkerProcLoad ==
    /\ wpc = "proc_load"
    /\ LET r == LoadJob(files[cur.job_id]) IN
         IF r.raised
           THEN /\ werr' = JSONDecodeError
                /\ wpc' = "fail_load"
                /\ UNCHANGED << wjob, clock >>
           ELSE IF r.value = None
             THEN /\ wjob' = None
                  /\ werr' = NoneTypeError
                  /\ wpc' = "fail_load"
                  /\ UNCHANGED clock
             ELSE /\ wjob' = MarkProcessing(r.value, clock)
                  /\ clock' = clock + 1
                  /\ wpc' = "proc_open"
                  /\ UNCHANGED werr
    /\ UNCHANGED << voices, storeVars, submitVars, cur, wlang, pollVars >>

\* line 78, open(..., "w")
WorkerProcSaveOpen ==
    /\ wpc = "proc_open"
    /\ files' = SaveOpen(files, cur.job_id)
    /\ wpc' = "proc_dump"
    /\ UNCHANGED << clock, voices, artifacts, queue, submitVars, cur, wjob, werr, wlang, pollVars >>

\* line 78, json.dump and close
WorkerProcSaveDump ==
    /\ wpc = "proc_dump"
    /\ files' = SaveDump(files, cur.job_id, wjob)
    /\ wpc' = "synth_call"
    /\ UNCHANGED << clock, voices, artifacts, queue, submitVars, cur, wjob, werr, wlang, pollVars >>

\* lines 81-97: resolve the language and call get_tts_wav (a generator
\* function: the call returns the generator, the work is done by next())
WorkerSynthCall ==
    /\ wpc = "synth_call"
    /\ wlang' = TtsLang(cur.language)
    /\ wpc' = "synth_next"
    /\ UNCHANGED << clock, voices, storeVars, submitVars, cur, wjob, werr, pollVars >>

\* line 99: next(result) returns
WorkerSynthReturn ==
    /\ wpc = "synth_next"
    /\ wpc' = "write_wav"
    /\ UNCHANGED << clock, voices, storeVars, submitVars, cur, wjob, werr, wlang, pollVars >>

\* line 99: next(result) raises
WorkerSynthRaise(msg) ==
    /\ wpc = "synth_next"
    /\ werr' = [msg |-> msg]
    /\ wpc' = "fail_load"
    /\ UNCHANGED << clock, voices, storeVars, submitVars, cur, wjob, wlang, pollVars >>

\* faulty variant: the audio never reaches the output location
WorkerWriteWav_Lost ==
    /\ wpc = "write_wav"
    /\ wpc' = "done_load"
    /\ UNCHANGED << clock, voices, storeVars, submitVars, cur, wjob, werr, wlang, pollVars >>

\* line 100: sf.write returns
WorkerWriteWav ==
    /\ wpc = "write_wav"
    /\ artifacts' = artifacts \cup {cur.out_wav}
    /\ wpc' = "done_load"
    /\ UNCHANGED << clock, voices, files, queue, submitVars, cur, wjob, werr, wlang, pollVars >>

\* line 100: sf.write raises
WorkerWriteWavRaise(msg) ==
    /\ wpc = "write_wav"
    /\ werr' = [msg |-> msg]
    /\ wpc' = "fail_load"
    /\ UNCHANGED << clock, voices, storeVars, submitVars, cur, wjob, wlang, pollVars >>

\* lines 103-106
WorkerDoneLoad ==
    /\ wpc = "done_load"
    /\ LET r == LoadJob(files[cur.job_id]) IN
         IF r.raised
           THEN /\ werr' = JSONDecodeError
                /\ wpc' = "fail_load"
                /\ UNCHANGED << wjob, clock >>
           ELSE IF r.value = None
             THEN /\ wjob' = None
                  /\ werr' = NoneTypeError
                  /\ wpc' = "fail_load"
                  /\ UNCHANGED clock
             ELSE /\ wjob' = MarkCompleted(r.value, clock, cur.out_wav)
                  /\ clock' = clock + 1
                  /\ wpc' = "done_open"
                  /\ UNCHANGED werr
    /\ UNCHANGED << voices, storeVars, submitVars, cur, wlang, pollVars >>

\* line 107, open(..., "w")
WorkerDoneSaveOpen ==
    /\ wpc = "done_open"
    /\ files' = SaveOpen(files, cur.job_id)
    /\ wpc' = "done_dump"
    /\ UNCHANGED << clock, voices, artifacts, queue, submitVars, cur, wjob, werr, wlang, pollVars >>

\* line 107, json.dump and close; then lines 109 and 123, back to line 70
WorkerDoneSaveDump ==
    /\ wpc = "done_dump"
    /\ files' = SaveDump(files, cur.job_id, wjob)
    /\ wpc' = "get"
    /\ UNCHANGED << clock, voices, artifacts, queue, submitVars, cur, wjob, werr, wlang, pollVars >>

\* lines 111-119.  An exception raised here is raised inside the except
\* block: nothing catches it, line 123 runs and the thread ends.
WorkerFailLoad ==
    /\ wpc = "fail_load"
    /\ LET r == LoadJob(files[cur.job_id]) IN
         IF r.raised
           THEN /\ wpc' = "dead"
                /\ UNCHANGED << wjob, werr, clock >>
           ELSE IF r.value = None
             THEN /\ wjob' = None
                  /\ wpc' = "dead"
                  /\ UNCHANGED << werr, clock >>
             ELSE /\ wjob' = MarkFailed(r.value, werr.msg, clock)
                  /\ clock' = clock + 1
                  /\ wpc' = "fail_open"
                  /\ UNCHANGED werr
    /\ UNCHANGED << voices, storeVars, submitVars, cur, wlang, pollVars >>

\* line 120, open(..., "w")
WorkerFailSaveOpen ==
    /\ wpc = "fail_open"
    /\ files' = SaveOpen(files, cur.job_id)
    /\ wpc' = "fail_dump"
    /\ UNCHANGED << clock, voices, artifacts, queue, submitVars, cur, wjob, werr, wlang, pollVars >>

\* line 120, json.dump and close; e is unbound at the end of the except
\* block; then line 123, back to line 70
WorkerFailSaveDump ==
    /\ wpc = "fail_dump"
    /\ files' = SaveDump(files, cur.job_id, wjob)
    /\ werr' = None
    /\ wpc' = "get"
    /\ UNCHANGED << clock, voices, artifacts, queue, submitVars, cur, wjob, wlang, pollVars >>

\* ------------------------------------------------------------ tts_status
JobNotFound == [code |-> 404, detail |-> "Job not found"]
\* an exception that leaves a handler is answered with status 500
InternalServerError == [code |-> 500, detail |-> "Internal Server Error"]

\* f"/outputs/{job['user_id']}/{job['voice_name']}/{job_id}.wav"
AudioUrl(job, job_id) == <<"/outputs", job.user_id, job.voice_name, job_id, ".wav">>

\* lines 205-223, without the queue_position of line 213
StatusBody(job, job_id) ==
    LET base == [job_id |-> job_id, status |-> job.status,
                 created_at |-> DictGet(job, "created_at", None)] IN
    CASE job.status = "queued" ->
           DictSet(base, "message", "Waiting in queue...")
      [] job.status = "processing" ->
           DictSet(DictSet(base, "message", "Generating audio..."),
                   "started_at", DictGet(job, "started_at", None))
      [] job.status = "completed" ->
           DictSet(DictSet(DictSet(base, "message", "Audio ready!"),
                   "audio_url", AudioUrl(job, job_id)),
                   "completed_at", DictGet(job, "completed_at", None))
      [] job.status = "failed" ->
           DictSet(DictSet(base, "message", "Generation failed"),
                   "error", DictGet(job, "error", None))
      [] OTHER -> base

\* lines 201-212 and 214-223
StatusLoad(job_id) ==
    /\ ppc = "idle"
    /\ pid' = job_id
    /\ LET r == LoadJob(files[job_id]) IN
         IF r.raised
           THEN /\ resp' = InternalServerError
                /\ ppc' = "reply"
           ELSE IF r.value = None
             THEN /\ resp' = JobNotFound
                  /\ ppc' = "reply"
             ELSE /\ resp' = [code |-> 200, body |-> StatusBody(r.value, job_id)]
                  /\ ppc' = IF r.value.status = "queued" THEN "qsize" ELSE "reply"
    /\ UNCHANGED << clock, voices, storeVars, submitVars, workerVars >>

\* line 213
StatusQsize ==
    /\ ppc = "qsize"
    /\ resp' = [resp EXCEPT !.body = DictSet(@, "queue_position", QSize(queue))]
    /\ ppc' = "reply"
    /\ UNCHANGED << clock, voices, storeVars, submitVars, workerVars, pid >>

\* line 225, or the error response leaves the server
StatusReturn ==
    /\ ppc = "reply"
    /\ ppc' = "idle"
    /\ pid' = 0
    /\ resp' = None
    /\ UNCHANGED << clock, voices, storeVars, submitVars, workerVars >>

\* ------------------------------------------------------------ the system
Next ==
    \/ \E u \in Users, v \in ClonedNames : CloneVoice(u, v)
    \/ \E u \in Users, v \in VoiceNames, t \in Texts, l \in Languages :
         SubmitReject(u, v, t, l)
    \/ \E u \in Users, v \in VoiceNames, t \in Texts, l \in Languages :
         SubmitBegin(u, v, t, l)
    \/ SubmitSaveOpen
    \/ SubmitSaveDump
    \/ SubmitPut
    \/ SubmitReply
    \/ WorkerGet
    \/ WorkerProcLoad
    \/ WorkerProcSaveOpen
    \/ WorkerProcSaveDump
    \/ WorkerSynthCall
    \/ WorkerSynthReturn
    \/ \E m \in ErrMsgs : WorkerSynthRaise(m)
    \/ WorkerWriteWav
    \/ \E m \in ErrMsgs : WorkerWriteWavRaise(m)
    \/ WorkerDoneLoad
    \/ WorkerDoneSaveOpen
    \/ WorkerDoneSaveDump
    \/ WorkerFailLoad
    \/ WorkerFailSaveOpen
    \/ WorkerFailSaveDump
    \/ \E j \in JobIds : StatusLoad(j)
    \/ StatusQsize
    \/ StatusReturn

Spec == Init /\ [][Next]_vars

\* ------------------------------------------------- faults of the store
\* A process outside the service removes jobs/{job_id}.json.
ExternalDelete(job_id) ==
    /\ IsDoc(files[job_id])
    /\ files' = [files EXCEPT ![job_id] = NoFile]
    /\ UNCHANGED << clock, voices, artifacts, queue, submitVars, workerVars, pollVars >>

NextCleanup ==
    \/ Next
    \/ \E j \in JobIds : ExternalDelete(j)

SpecCleanup == Init /\ [][NextCleanup]_vars

\* open(), json.load() or json.dump() raises OSError in load_job / save_job
\* called from the try block (lines 75, 78, 103, 107): caught at line 111.
\* A write that fails leaves the file as the failed call left it.
OSErrorMsg == "[Errno 5] Input/output error"

WorkerStoreRaise ==
    /\ wpc \in {"proc_load", "proc_open", "proc_dump", "done_load", "done_open", "done_dump"}
    /\ werr' = [msg |-> OSErrorMsg]
    /\ wpc' = "fail_load"
    /\ UNCHANGED << clock, voices, storeVars, submitVars, cur, wjob, wlang, pollVars >>

\* the same in load_job / save_job called from the except block (lines 116,
\* 120): nothing catches it, line 123 runs and the thread ends
WorkerHandlerStoreRaise ==
    /\ wpc \in {"fail_load", "fail_open", "fail_dump"}
    /\ wpc' = "dead"
    /\ UNCHANGED << clock, voices, storeVars, submitVars, cur, wjob, werr, wlang, pollVars >>

NextFault ==
    \/ Next
    \/ WorkerStoreRaise
    \/ WorkerHandlerStoreRaise

SpecFault == Init /\ [][NextFault]_vars

\* ------------------------------------------------------------ properties
Terminal == {"completed", "failed"}

InQueue(id) == \E i \in 1 .. Len(queue) : queue[i].job_id = id

\* the dict of the save_job call that has opened jobs/{id}.json
Pending(id) == IF spc = "save_dump" /\ sjob.job_id = id THEN sjob ELSE wjob

\* the record of job id: the document in the file, or the one being written
Data(id) == IF IsDoc(files[id]) THEN files[id].data ELSE Pending(id)

\* the status the store holds for job id ("none": no record yet)
Settled(id) == IF files[id].state = "absent" THEN "none" ELSE Data(id).status

LegalStep(s, t) ==
    \/ s = "none" /\ t = "queued"
    \/ s = "queued" /\ t = "processing"
    \/ s = "processing" /\ t \in Terminal

C2_Fifo ==
    \A a, b \in JobIds :
        ( /\ files[a].state # "absent"
          /\ files[b].state # "absent"
          /\ Data(a).created_at < Data(b).created_at
          /\ Settled(b) # "queued" )
        => (IsDoc(files[a]) /\ files[a].data.status \in Terminal)

\* b was submitted while a was still waiting, and is processed after a
C2_Witness ==
    \E a, b \in JobIds :
        /\ IsDoc(files[a]) /\ IsDoc(files[b])
        /\ files[a].data.status \in Terminal
        /\ files[b].data.status = "processing"
        /\ files[a].data.created_at < files[b].data.created_at
        /\ files[b].data.created_at < files[a].data.started_at

WorkerFailPcs == {"fail_load", "fail_open", "fail_dump"}

\* C3: when synthesis or the artifact write raises for job K, the worker
\* stays in its loop: it never terminates, and the only way it leaves the
\* except block is back to job_queue.get() with K's record failed and the
\* exception's message recorded.
RaiseIsCaught ==
    (wpc \in {"synth_next", "write_wav"} /\ wpc' \notin {"synth_next", "write_wav", "done_load"})
        => (wpc' = "fail_load" /\ cur' = cur /\ werr' # None)

HandlerRecordsFailure ==
    wpc \in WorkerFailPcs =>
        \/ wpc' \in WorkerFailPcs /\ cur' = cur /\ werr' = werr
        \/ /\ wpc' = "get"
           /\ IsDoc(files'[cur.job_id])
           /\ files'[cur.job_id].data.status = "failed"
           /\ files'[cur.job_id].data.error = werr.msg

C3_FailureIsolated ==
    [](wpc # "dead") /\ [][RaiseIsCaught]_vars /\ [][HandlerRecordsFailure]_vars

\* K failed, and L, submitted after K had failed, completed
C3_Witness ==
    \E k, l \in JobIds :
        /\ IsDoc(files[k]) /\ files[k].data.status = "failed"
        /\ IsDoc(files[l]) /\ files[l].data.status = "completed"
        /\ files[k].data.failed_at < files[l].data.created_at
        /\ wpc = "get"

\* C4: a completed record has a non-empty audio_url and no error, a failed
\* record has a non-empty error and no audio_url, and no record has both.
C4_ExclusiveOutcome ==
    \A id \in JobIds :
        IsDoc(files[id]) =>
            LET job == files[id].data IN
            /\ job.status = "completed" =>
                 ("audio_url" \in DOMAIN job /\ job.audio_url # << >> /\ "error" \notin DOMAIN job)
            /\ job.status = "failed" =>
                 ("error" \in DOMAIN job /\ job.error # "" /\ "audio_url" \notin DOMAIN job)
            /\ ~ ("audio_url" \in DOMAIN job /\ "error" \in DOMAIN job)

\* tts_status starts for job id
StatusQueryStarts(id) == ppc = "idle" /\ ppc' # "idle" /\ pid' = id

\* id is the job of the latest submission, and that submission has returned
JustReturned(id) == id \in returned /\ spc = "idle" /\ \A j \in issued : j <= id

\* C5 (as claimed): a status query issued right after tts_submit returned
\* finds status queued and a queue of size at least 1.
C5_QueuedAfterSubmit ==
    [][\A id \in JobIds : (StatusQueryStarts(id) /\ JustReturned(id)) =>
            (resp'.code = 200 /\ resp'.body.status = "queued" /\ QSize(queue) >= 1)]_vars

\* C5 (amended): a status query issued after tts_submit returned, while the
\* job is still in the queue, finds status queued and a queue of size at
\* least 1.
C5_QueuedWhileEnqueued ==
    [][\A id \in JobIds : (StatusQueryStarts(id) /\ id \in returned /\ InQueue(id)) =>
            (resp'.code = 200 /\ resp'.body.status = "queued" /\ QSize(queue) >= 1)]_vars

C5_Witness ==
    /\ ppc = "qsize" /\ pid \in returned /\ InQueue(pid)
    /\ resp.body.status = "queued"

\* C6: a status query never observes a half-written record, that is,
\* load_job in tts_status never fails to decode the document.
C6_NoTornRead == ppc = "reply" => resp.code # 500

\* C7 (as claimed): a query for an identifier no submission has returned
\* is answered not-found, and a query for a returned identifier is never
\* answered not-found.
C7_UnknownIdNotFound ==
    [][\A id \in JobIds : StatusQueryStarts(id) =>
            ((id \notin returned => resp'.code = 404) /\ (id \in returned => resp'.code # 404))]_vars

\* C7 (amended): a query for an identifier for which no submission has
\* started to write a record is answered not-found, and a query for a
\* returned identifier is never answered not-found.
C7_NoRecordNotFound ==
    [][\A id \in JobIds : StatusQueryStarts(id) =>
            ((files[id].state = "absent" => resp'.code = 404) /\ (id \in returned => resp'.code # 404))]_vars

\* an unknown identifier was answered not-found while other jobs exist
C7_Witness ==
    /\ ppc = "reply" /\ resp.code = 404 /\ pid \notin issued
    /\ returned # {}

\* tts_submit is entered with these form fields
SubmitEnters(u, v, t, l) == SubmitReject(u, v, t, l) \/ SubmitBegin(u, v, t, l)

\* C8: a submission naming a voice whose ref.wav does not exist is answered
\* 404 and changes neither the records nor the queue: no identifier is
\* issued, no job data is built, and delivering the answer changes nothing.
RejectedAtEntry ==
    \A u \in Users, v \in VoiceNames, t \in Texts, l \in Languages :
        (SubmitEnters(u, v, t, l) /\ RefWav(u, CleanVoiceName(v)) \notin voices) =>
            (sresp' = VoiceNotFound /\ spc' = "reply"
               /\ UNCHANGED << files, queue, artifacts, issued, returned, sjob >>)

RejectionDelivered ==
    (spc = "reply" /\ sresp = VoiceNotFound /\ spc' # spc) =>
        (spc' = "idle" /\ UNCHANGED << files, queue, artifacts, issued, returned, sjob >>)

C8_RejectLeavesState == [][RejectedAtEntry]_vars /\ [][RejectionDelivered]_vars

\* a submission was rejected while a job was waiting in the queue
C8_Witness ==
    /\ spc = "reply" /\ sresp = VoiceNotFound
    /\ QSize(queue) >= 1 /\ returned # {}

\* C9: the worker does not terminate on a job whose record is missing.
C9_SkipsMissingRecord == ~ (wpc = "dead" /\ files[cur.job_id].state = "absent")

\* C10: the worker does not terminate when load_job or save_job fails.
C10_SurvivesStoreFault == wpc # "dead"

\* ------------------------------------------------------------ fairness
\* one step of the worker thread
WorkerStep ==
    \/ WorkerGet
    \/ WorkerProcLoad
    \/ WorkerProcSaveOpen
    \/ WorkerProcSaveDump
    \/ WorkerSynthCall
    \/ WorkerSynthReturn
    \/ \E m \in ErrMsgs : WorkerSynthRaise(m)
    \/ WorkerWriteWav
    \/ \E m \in ErrMsgs : WorkerWriteWavRaise(m)
    \/ WorkerDoneLoad
    \/ WorkerDoneSaveOpen
    \/ WorkerDoneSaveDump
    \/ WorkerFailLoad
    \/ WorkerFailSaveOpen
    \/ WorkerFailSaveDump

\* one step of a tts_submit call that is under way
SubmitStep ==
    \/ SubmitSaveOpen
    \/ SubmitSaveDump
    \/ SubmitPut
    \/ SubmitReply

\* The worker thread (line 126) is scheduled again and again, and
\* next(result) and sf.write return or raise.
FairSpec == Spec /\ WF_vars(WorkerStep)

\* The event loop goes on with a handler it has started; nothing is assumed
\* about the worker thread.
SubmitFairSpec == Spec /\ WF_vars(SubmitStep)

\* C11: with the worker scheduled fairly and synthesis returning or raising,
\* every job whose identifier was returned by tts_submit eventually has a
\* record with status completed or failed.
C11_EventuallyTerminal ==
    \A id \in JobIds :
        (id \in returned) ~> (IsDoc(files[id]) /\ files[id].data.status \in Terminal)

\* every job the model can submit has been returned and is terminal
C11_Witness ==
    \A id \in JobIds :
        id \in returned /\ IsDoc(files[id]) /\ files[id].data.status \in Terminal

\* C13: a submission that passed the voice check runs to its end by the
\* steps of tts_submit alone: whatever the worker does or does not do (it
\* may stay inside next(result) for ever) and however long the queue is,
\* the identifier is returned.
C13_SubmitNeverWaits ==
    \A id \in JobIds : (id \in issued) ~> (id \in returned)

\* a submission is answered while the worker is inside synthesis of another
\* job and the new job waits in the queue
C13_Witness ==
    /\ wpc = "synth_next"
    /\ spc = "reply" /\ sresp.code = 200 /\ sresp.job_id # cur.job_id
    /\ InQueue(sresp.job_id)
    /\ IsDoc(files[sresp.job_id]) /\ files[sresp.job_id].data.status = "queued"

\* the worker has taken job id off the queue and has not finished with it
Held(id) == wpc # "get" /\ cur # None /\ cur.job_id = id

\* the number of queue entries for job id
QueueCount(id) == Cardinality({i \in 1 .. Len(queue) : queue[i].job_id = id})

\* tts_submit has put job id on the queue
Enqueued(id) ==
    id \in issued /\ ~ (spc \in {"save_open", "save_dump", "put"} /\ sjob.job_id = id)

\* the worker is done with job id
Finished(id) == ~ Held(id) /\ IsDoc(files[id]) /\ files[id].data.status \in Terminal

ExactlyOnePlace(id) ==
    IF Enqueued(id)
      THEN QueueCount(id) + (IF Held(id) THEN 1 ELSE 0) + (IF Finished(id) THEN 1 ELSE 0) = 1
      ELSE QueueCount(id) = 0 /\ ~ Held(id)

\* the worker takes a job off the queue only if nothing has processed it yet
DequeuesFresh ==
    (wpc = "get" /\ wpc' # "get") =>
        (IsDoc(files[cur'.job_id]) /\ files[cur'.job_id].data.status = "queued")

\* C12: every job put on the queue is dequeued exactly once: at any time it
\* is in exactly one place (once in the queue, or with the worker, or done),
\* so none is lost or duplicated, and the worker never takes a job that has
\* been processed before.
C12_ExactlyOnce ==
    [](\A id \in JobIds : ExactlyOnePlace(id)) /\ [][DequeuesFresh]_vars

\* one job is done and another is with the worker, inside synthesis
C12_Witness ==
    \E a, b \in JobIds : Finished(a) /\ Held(b) /\ wpc = "synth_next"

\* ------------------------------------------------------------ restart
\* faulty variant: at startup the records still queued are put on the queue
StartupQueue_Requeue(fs) ==
    LET ids == SelectSeq([i \in 1 .. MaxJobs |-> i],
                         LAMBDA i : IsDoc(fs[i]) /\ fs[i].data.status = "queued")
    IN [k \in 1 .. Len(ids) |-> fs[ids[k]].data]

\* line 34: job_queue = queue.Queue(), whatever is under jobs/
StartupQueue(fs) == << >>

\* The process ends (at any point of any thread) and is started again:
\* lines 20-35 and 126 run, the files under voices/, jobs/ and outputs/ are
\* what they were.
Restart ==
    /\ queue' = StartupQueue(files)
    /\ spc' = "idle" /\ sjob' = None /\ sresp' = None
    /\ wpc' = "get" /\ cur' = None /\ wjob' = None /\ werr' = None /\ wlang' = "(unbound)"
    /\ ppc' = "idle" /\ pid' = 0 /\ resp' = None
    /\ UNCHANGED << clock, voices, files, artifacts, issued, returned >>

NextRestart ==
    \/ Next
    \/ Restart

SpecRestart == Init /\ [][NextRestart]_vars

\* a record that is queued or processing while its job is neither in the
\* queue, nor with the worker, nor about to be enqueued by tts_submit
Orphan(id) ==
    /\ IsDoc(files[id]) /\ files[id].data.status \in {"queued", "processing"}
    /\ ~ InQueue(id)
    /\ ~ Held(id)
    /\ ~ (spc = "put" /\ sjob.job_id = id)

RestartOrphans ==
    Restart =>
        \A id \in JobIds :
            (IsDoc(files[id]) /\ files[id].data.status \in {"queued", "processing"})
                => (Orphan(id)' /\ files'[id] = files[id])

OrphanStays ==
    \A id \in JobIds : Orphan(id) => (Orphan(id)' /\ files'[id] = files[id])

\* C14: a restart leaves every record that is queued or processing as it
\* is, with its job in no queue and with no worker, and from then on the
\* record never changes: the job is not requeued, not processed and not
\* marked failed.
C14_StuckAfterRestart == [][RestartOrphans]_vars /\ [][OrphanStays]_vars

\* a job submitted after the restart has completed next to a stuck record
C14_Witness ==
    \E a, b \in JobIds :
        /\ Orphan(a) /\ files[a].data.status = "processing"
        /\ IsDoc(files[b]) /\ files[b].data.status = "completed"
        /\ files[a].data.started_at < files[b].data.created_at

\* the jobs whose record has status processing
ProcessingIds == {id \in JobIds : IsDoc(files[id]) /\ files[id].data.status = "processing"}

\* C15: in one run of the process at most one record is processing, it is
\* the record of the job the worker holds, and while a call of the
\* synthesis is under way the job it is for is the only one processing.
C15_OneAtATime ==
    /\ Cardinality(ProcessingIds) <= 1
    /\ \A id \in ProcessingIds : Held(id)
    /\ wpc = "synth_next" => ProcessingIds = {cur.job_id}

\* synthesis of one job is under way after an earlier job failed and while
\* no other record is processing
C15_Witness ==
    /\ wpc = "synth_next"
    /\ \E a \in JobIds : a # cur.job_id /\ IsDoc(files[a]) /\ files[a].data.status = "failed"

\* the file under outputs/ that an audio_url of a status response names
UrlFile(url) == << "outputs" >> \o Tail(url)

\* a status query has read a completed record and holds its response
SeesCompleted == ppc = "reply" /\ resp.code = 200 /\ resp.body.status = "completed"

\* C16: a record with status completed names an output file that exists,
\* the worker is past the write of the audio whenever it is about to
\* persist completed, and a status response that says completed names an
\* output file that exists.
C16_ArtifactBeforeCompleted ==
    /\ \A id \in JobIds :
         (IsDoc(files[id]) /\ files[id].data.status = "completed")
           => /\ files[id].data.out_wav \in artifacts
              /\ files[id].data.audio_url = files[id].data.out_wav
    /\ wpc \in {"done_load", "done_open", "done_dump"} => cur.out_wav \in artifacts
    /\ SeesCompleted => UrlFile(resp.body.audio_url) \in artifacts

\* a status query reports a completed job
C16_Witness ==
    /\ SeesCompleted
    /\ IsDoc(files[pid]) /\ files[pid].data.status = "completed"
    /\ UrlFile(resp.body.audio_url) = files[pid].data.out_wav

\* the record of a job is the complete document tts_submit wrote
FreshRecord(job_data) ==
    /\ IsDoc(files[job_data.job_id])
    /\ files[job_data.job_id].data = job_data
    /\ job_data.status = "queued"

\* C17: when tts_submit is about to put a job on the queue, and while the
\* job is in the queue, its record is the complete queued document that
\* tts_submit wrote; the record of the job the worker holds exists.
C17_RecordBeforeEnqueue ==
    /\ spc = "put" => FreshRecord(sjob)
    /\ \A i \in 1 .. Len(queue) : FreshRecord(queue[i])
    /\ \A id \in JobIds : Held(id) => files[id].state # "absent"

\* one job waits in the queue behind the job the worker has just taken
C17_Witness ==
    /\ Len(queue) >= 1
    /\ wpc = "proc_load" /\ ~ InQueue(cur.job_id)
    /\ FreshRecord(queue[1]) /\ FreshRecord(cur)

\* the timestamps a complete record carries agree with its status
Stamped(job) ==
    /\ "created_at" \in DOMAIN job
    /\ job.status \in {"processing", "completed", "failed"} => "started_at" \in DOMAIN job
    /\ "completed_at" \in DOMAIN job <=> job.status = "completed"
    /\ "failed_at" \in DOMAIN job <=> job.status = "failed"

CreationFields ==
    {"job_id", "user_id", "voice_name", "text", "language", "ref_wav", "out_wav",
     "created_at"}

CreationPart(job) == [f \in CreationFields |-> job[f]]

\* a step keeps the creation-time fields of every record that exists
KeepsCreationFields ==
    \A id \in JobIds :
        (files[id].state # "absent" /\ files'[id].state # "absent")
          => CreationPart(Data(id)') = CreationPart(Data(id))

\* a step of tts_status writes no record and does not touch the queue
StatusQueryReadsOnly == (pollVars' # pollVars) => (files' = files /\ queue' = queue)

\* C19: the fields job_id, user_id, voice_name, text, language, ref_wav,
\* out_wav and created_at of a record keep the values tts_submit wrote
\* through every later step, and a step of a status query changes no
\* record and not the queue.
C19_CreationFieldsFrozen == [][KeepsCreationFields /\ StatusQueryReadsOnly]_vars

\* a status query answers for a failed record that the worker has written
\* twice, while another job is still in the queue
C19_Witness ==
    /\ ppc = "reply" /\ resp.code = 200 /\ resp.body.status = "failed"
    /\ IsDoc(files[pid]) /\ files[pid].data.status = "failed"
    /\ resp.body.created_at = files[pid].data.created_at
    /\ Len(queue) >= 1

\* ------------------------------------------------- the language of a job
\* lines 91-97: the keyword arguments of the get_tts_wav call
SynthArgs(job_data, tts_lang) ==
    [ ref_wav_path |-> job_data.ref_wav,
      prompt_text |-> "",
      prompt_language |-> tts_lang,
      text |-> job_data.text,
      text_language |-> tts_lang ]

\* values of the form field language of /tts: the codes of the table in
\* several spellings, codes the table does not have, and the empty string
LangInputs ==
    { <<"e", "n">>, <<"E", "N">>, <<"E", "n">>,
      <<"E", "n", "g", "l", "i", "s", "h">>,
      <<"z", "h">>, <<"Z", "H">>, <<"z", "H">>,
      <<"c", "h", "i", "n", "e", "s", "e">>,
      <<"j", "a">>, <<"J", "A">>,
      <<"J", "a", "p", "a", "n", "e", "s", "e">>,
      <<"k", "o">>, <<"K", "o">>,
      <<"K", "o", "r", "e", "a", "n">>,
      <<"b", "n">>, <<"B", "N">>,
      <<"f", "r">>, <<"z">>, <<"e", "n", " ">>, << >> }

\* the service after one submission with language l has returned
InitLang ==
    \E u \in Users, v \in ClonedNames, t \in Texts, l \in LangInputs :
        LET job_data == NewJobData(1, u, CleanVoiceName(v), t, l, 1) IN
        /\ clock = 2
        /\ voices = {RefWav(u, CleanVoiceName(v))}
        /\ files = SaveDump([id \in JobIds |-> NoFile], 1, job_data)
        /\ artifacts = {}
        /\ queue = QueuePut(<< >>, job_data)
        /\ issued = {1}
        /\ returned = {1}
        /\ spc = "idle" /\ sjob = None /\ sresp = None
        /\ wpc = "get" /\ cur = None /\ wjob = None /\ werr = None /\ wlang = "(unbound)"
        /\ ppc = "idle" /\ pid = 0 /\ resp = None

NextLang == WorkerStep

SpecLang == InitLang /\ [][NextLang]_vars

\* the names the claim uses for the values of lang_map
English == "English"
Chinese == "Zhongwen"
Japanese == "Nihongo"
Korean == "Hangugeo"

UpperChar(c) ==
    CASE c = "a" -> "A" [] c = "b" -> "B" [] c = "c" -> "C" [] c = "e" -> "E"
      [] c = "g" -> "G" [] c = "h" -> "H" [] c = "i" -> "I" [] c = "j" -> "J"
      [] c = "k" -> "K" [] c = "l" -> "L" [] c = "n" -> "N" [] c = "o" -> "O"
      [] c = "p" -> "P" [] c = "r" -> "R" [] c = "s" -> "S" [] c = "z" -> "Z"
      [] OTHER -> c

\* code spells one of the names, in any mix of upper and lower case
Spells(code, names) ==
    \E k \in names :
        /\ Len(code) = Len(k)
        /\ \A i \in 1 .. Len(k) : code[i] \in {k[i], UpperChar(k[i])}

\* the language the claim gives for a requested code
ExpectedLang(code) ==
    CASE Spells(code, { <<"e", "n">>, <<"e", "n", "g", "l", "i", "s", "h">> }) -> English
      [] Spells(code, { <<"z", "h">>, <<"c", "h", "i", "n", "e", "s", "e">> }) -> Chinese
      [] Spells(code, { <<"j", "a">>, <<"j", "a", "p", "a", "n", "e", "s", "e">> }) -> Japanese
      [] Spells(code, { <<"k", "o">>, <<"k", "o", "r", "e", "a", "n">> }) -> Korean
      [] OTHER -> English

\* C20: while a call of the synthesis is under way, its prompt language is
\* the language the requested code of the job stands for, compared without
\* regard to case (en, english: English; zh, chinese: Chinese; ja, japanese:
\* Japanese; ko, korean: Korean; anything else, bn included: English), and
\* its text language is the same value.
C20_LanguageResolved ==
    wpc = "synth_next" =>
        LET args == SynthArgs(cur, wlang) IN
        /\ args.prompt_language = ExpectedLang(cur.language)
        /\ args.text_language = args.prompt_language

\* a code in mixed case has been resolved to a language other than the default
C20_Witness ==
    /\ wpc = "synth_next"
    /\ cur.language = <<"z", "H">>
    /\ SynthArgs(cur, wlang).text_language = Chinese

====
